---- MODULE Spec2Model ----
(***************************************************************************)
(* A model of the event-page pipeline of citycast_urlparser:               *)
(*   src/app.py         the batch run ("do_fetch" block): one               *)
(*                      PlaywrightSession, parse_event per URL, close()     *)
(*   src/url_parser.py  PlaywrightSession (close, fetch, on_response),      *)
(*                      looks_blocked, fetch_with_requests, parse_event     *)
(* The program is sequential: pc is the position of the single thread of    *)
(* control.  Browser network events are dispatched while a blocking         *)
(* Playwright call is pending, which is modelled by the action Deliver      *)
(* being enabled at the positions of those calls.                           *)
(***************************************************************************)
EXTENDS Integers, Sequences, FiniteSets, TLC

(***************************************************************************)
(* Bounds of the model.                                                     *)
(***************************************************************************)
NumUrls == 2          \* URLs of the pasted list handed to the batch run
NumAdapters == 2      \* length of the ADAPTERS registry
MaxResponses == 2     \* network responses observed during one fetch

(***************************************************************************)
(* Python values.  A value is None, a str (a sequence of characters or of   *)
(* lexical tokens) or another truthy JSON value (number, dict, list).       *)
(***************************************************************************)
None == [k |-> "none", v |-> <<>>]
Str(s) == [k |-> "str", v |-> s]
Obj == [k |-> "obj", v |-> <<>>]
IsStr(v) == v.k = "str"

\* JSON arrays and objects: a list of values, a dict as its (key, value) pairs
List(elems) == [k |-> "list", v |-> elems]
Dict(pairs) == [k |-> "dict", v |-> pairs]
IsDict(v) == v.k = "dict"
IsList(v) == v.k = "list"
\* dict.get(k)
Get(d, k) ==
  IF \E n \in 1..Len(d.v) : d.v[n][1] = k
    THEN d.v[CHOOSE n \in 1..Len(d.v) : d.v[n][1] = k /\ \A m \in 1..(n - 1) : d.v[m][1] # k][2]
    ELSE None
\* Python truth value: None, "", [] and {} are false
Truthy(v) == v.k = "obj" \/ (v.k \in {"str", "list", "dict"} /\ v.v # <<>>)
\* Python's `a or b`
Or(a, b) == IF Truthy(a) THEN a ELSE b

(***************************************************************************)
(* Text.  A str is a sequence of characters; a lexical unit the code only   *)
(* handles as a whole (an HTML entity, a markup tag, a component of an ISO  *)
(* date, a URL part) is one element of the sequence.                        *)
(***************************************************************************)
\* characters for which str.isspace() holds and which \s matches
Whitespace == {" ", "NL", "NBSP", "TAB"}

Min(a, b) == IF a <= b THEN a ELSE b

RECURSIVE LStrip(_)
LStrip(s) == IF s # <<>> /\ Head(s) \in Whitespace THEN LStrip(Tail(s)) ELSE s
RECURSIVE RStrip(_)
RStrip(s) ==
  IF s # <<>> /\ s[Len(s)] \in Whitespace THEN RStrip(SubSeq(s, 1, Len(s) - 1)) ELSE s
\* str.strip()
Strip(s) == RStrip(LStrip(s))

UpperCase == <<"A", "B", "C", "D", "E", "F", "G", "H", "I", "J", "K", "L", "M",
               "N", "O", "P", "Q", "R", "S", "T", "U", "V", "W", "X", "Y", "Z">>
LowerCase == <<"a", "b", "c", "d", "e", "f", "g", "h", "i", "j", "k", "l", "m",
               "n", "o", "p", "q", "r", "s", "t", "u", "v", "w", "x", "y", "z">>
LowerChar(c) ==
  IF \E n \in 1..26 : UpperCase[n] = c
    THEN LowerCase[CHOOSE n \in 1..26 : UpperCase[n] = c]
    ELSE c
\* str.lower()
Lower(s) == [n \in 1..Len(s) |-> LowerChar(s[n])]

\* k in s
Contains(s, k) ==
  \E n \in 1..(Len(s) - Len(k) + 1) : SubSeq(s, n, n + Len(k) - 1) = k
\* s.startswith(k)
StartsWith(s, k) == Len(s) >= Len(k) /\ SubSeq(s, 1, Len(k)) = k

\* ", ".join(parts)
RECURSIVE Join(_)
Join(parts) ==
  IF parts = <<>> THEN <<>>
  ELSE IF Len(parts) = 1 THEN parts[1]
  ELSE parts[1] \o <<",", " ">> \o Join(Tail(parts))

\* html.unescape: the character an entity stands for
EntityChar(c) ==
  CASE c = "&amp;" -> "&"
    [] c = "&nbsp;" -> "NBSP"
    [] c = "&lt;" -> "<"
    [] c = "&gt;" -> ">"
    [] OTHER -> c
Unescape(s) == [n \in 1..Len(s) |-> EntityChar(s[n])]

\* the end of the whitespace run that starts at position p
RECURSIVE RunEnd(_, _)
RunEnd(s, p) == IF p < Len(s) /\ s[p + 1] \in Whitespace THEN RunEnd(s, p + 1) ELSE p

\* re.sub(r"\s*\n+\s*", " ", s): a whitespace run holding a newline becomes a space
RECURSIVE SubNewlineRuns(_, _)
SubNewlineRuns(s, p) ==
  IF p > Len(s) THEN <<>>
  ELSE IF s[p] \notin Whitespace THEN <<s[p]>> \o SubNewlineRuns(s, p + 1)
  ELSE LET e == RunEnd(s, p) IN
       (IF \E n \in p..e : s[n] = "NL" THEN <<" ">> ELSE SubSeq(s, p, e))
         \o SubNewlineRuns(s, e + 1)

\* re.sub(r"\s+", " ", s): every whitespace run becomes one space
RECURSIVE SubRuns(_, _)
SubRuns(s, p) ==
  IF p > Len(s) THEN <<>>
  ELSE IF s[p] \notin Whitespace THEN <<s[p]>> \o SubRuns(s, p + 1)
  ELSE <<" ">> \o SubRuns(s, RunEnd(s, p) + 1)

\* s.replace("\xa0", " ")
ReplaceNbsp(s) == [n \in 1..Len(s) |-> IF s[n] = "NBSP" THEN " " ELSE s[n]]

\* url_parser.py:252-258
clean_whitespace(v) ==
  IF ~Truthy(v) THEN None
  ELSE LET a == ReplaceNbsp(v.v)
           b == SubNewlineRuns(a, 1)
           c == Strip(SubRuns(b, 1))
       IN IF c # <<>> THEN Str(c) ELSE None

Letters == {UpperCase[n] : n \in 1..26} \cup {LowerCase[n] : n \in 1..26}

\* the position of the first ">" at or after p, 0 if there is none
RECURSIVE FindGt(_, _)
FindGt(s, p) == IF p > Len(s) THEN 0 ELSE IF s[p] = ">" THEN p ELSE FindGt(s, p + 1)

\* whether a markup tag starts at position p: "<" or "</" and a letter, closed by ">"
TagAt(s, p) ==
  /\ s[p] = "<"
  /\ \/ (p + 1 <= Len(s) /\ s[p + 1] \in Letters)
     \/ (p + 2 <= Len(s) /\ s[p + 1] = "/" /\ s[p + 2] \in Letters)
  /\ FindGt(s, p) # 0

\* the text nodes of a parsed fragment: the text between the tags
RECURSIVE TextNodes(_, _, _)
TextNodes(s, p, cur) ==
  IF p > Len(s) THEN <<cur>>
  ELSE IF TagAt(s, p) THEN <<cur>> \o TextNodes(s, FindGt(s, p) + 1, <<>>)
  ELSE TextNodes(s, p + 1, Append(cur, s[p]))

RECURSIVE JoinWith(_, _)
JoinWith(parts, sep) ==
  IF parts = <<>> THEN <<>>
  ELSE IF Len(parts) = 1 THEN parts[1]
  ELSE parts[1] \o sep \o JoinWith(Tail(parts), sep)

RECURSIVE StripNodes(_)
StripNodes(nodes) ==
  IF nodes = <<>> THEN <<>>
  ELSE LET n == Strip(Head(nodes)) IN
       (IF n = <<>> THEN <<>> ELSE <<n>>) \o StripNodes(Tail(nodes))

\* BeautifulSoup(s, "html.parser").get_text(" ", strip=True)
GetText(s) == JoinWith(StripNodes(TextNodes(s, 1, <<>>)), <<" ">>)

\* s.replace("\\n", " "): a backslash followed by the letter n becomes a space
RECURSIVE ReplaceBackslashN(_, _)
ReplaceBackslashN(s, p) ==
  IF p > Len(s) THEN <<>>
  ELSE IF p < Len(s) /\ s[p] = "BACKSLASH" /\ s[p + 1] = "n"
    THEN <<" ">> \o ReplaceBackslashN(s, p + 2)
  ELSE <<s[p]>> \o ReplaceBackslashN(s, p + 1)

(***************************************************************************)
(* Dates.  The components of an ISO-8601 string are single elements.        *)
(***************************************************************************)
IsoDates == {"2025-12-05", "2025-12-06"}
IsoTimes == {"19:00:00", "00:00:00"}
IsoFractions == {".250"}
IsoZones == {"-07:00", "Z"}
\* isoparse (sep=None) accepts any single character between date and time
IsoSeparators == {"T", " "}

\* dateutil.parser.isoparse: whether s parses, and to which date and time
IsoParses(s) ==
  \/ Len(s) = 1 /\ s[1] \in IsoDates
  \/ /\ Len(s) >= 3
     /\ s[1] \in IsoDates /\ s[2] \in IsoSeparators /\ s[3] \in IsoTimes
     /\ \/ Len(s) = 3
        \/ Len(s) = 4 /\ s[4] \in IsoFractions \cup IsoZones
        \/ Len(s) = 5 /\ s[4] \in IsoFractions /\ s[5] \in IsoZones

\* dt.replace(tzinfo=None, microsecond=0).isoformat()
IsoFormat(s) == <<s[1], "T", IF Len(s) = 1 THEN "00:00:00" ELSE s[3]>>

\* url_parser.py:242-250
normalize_iso_no_tz(v) ==
  IF ~Truthy(v) \/ ~IsStr(v) THEN None
  ELSE IF IsoParses(v.v) THEN Str(IsoFormat(v.v))
  ELSE IF Strip(v.v) # <<>> THEN Str(Strip(v.v)) ELSE None

\* str(v)
ToStr(v) == IF IsStr(v) THEN v.v ELSE <<"repr">>

\* [str(v).strip() for the truthy address parts], in the order of the keys
RECURSIVE AddressParts(_, _)
AddressParts(addr, keys) ==
  IF keys = <<>> THEN <<>>
  ELSE LET v == Get(addr, Head(keys)) IN
       (IF Truthy(v) /\ Strip(ToStr(v)) # <<>> THEN <<Strip(ToStr(v))>> ELSE <<>>)
         \o AddressParts(addr, Tail(keys))

AddressKeys == <<"streetAddress", "addressLocality", "addressRegion", "postalCode",
                 "addressCountry">>

\* url_parser.py:229-240
format_address(addr) ==
  IF IsStr(addr) THEN (IF Strip(addr.v) # <<>> THEN Str(Strip(addr.v)) ELSE None)
  ELSE IF IsDict(addr)
    THEN LET out == Join(AddressParts(addr, AddressKeys)) IN
         IF out # <<>> THEN Str(out) ELSE None
  ELSE None

(***************************************************************************)
(* URLs, as urlsplit sees them; a URL string is the sequence of its parts:  *)
(* the scheme with its colon, slashes, host and path segments.              *)
(***************************************************************************)
Urls ==
  { [scheme |-> "https:", netloc |-> "ex.org", path |-> <<"events", "tea">>, fragment |-> f]
      : f \in {"", "event=tea"} }

Schemes == {"https:", "http:"}

\* whether a URL string has no scheme of its own
IsRelativeRef(s) == s = <<>> \/ Head(s) \notin Schemes

\* posixpath-style removal of "." and ".." from a list of path segments
RECURSIVE RemoveDots(_, _)
RemoveDots(segs, acc) ==
  IF segs = <<>> THEN acc
  ELSE IF Head(segs) = "." THEN RemoveDots(Tail(segs), acc)
  ELSE IF Head(segs) = ".."
    THEN RemoveDots(Tail(segs), IF acc = <<>> THEN acc ELSE SubSeq(acc, 1, Len(acc) - 1))
  ELSE RemoveDots(Tail(segs), Append(acc, Head(segs)))

\* the path segments of a reference: its elements other than "/"
RECURSIVE Segments(_)
Segments(s) ==
  IF s = <<>> THEN <<>>
  ELSE (IF Head(s) = "/" THEN <<>> ELSE <<Head(s)>>) \o Segments(Tail(s))

RECURSIVE PathString(_)
PathString(segs) ==
  IF segs = <<>> THEN <<>> ELSE <<"/", Head(segs)>> \o PathString(Tail(segs))

\* urllib.parse.urljoin(base, ref) for a reference without query or fragment
urljoin(base, ref) ==
  IF ref = <<>> THEN <<base.scheme, "/", "/", base.netloc>> \o PathString(base.path)
  ELSE IF ~IsRelativeRef(ref) THEN ref
  ELSE IF StartsWith(ref, <<"/", "/">>) THEN <<base.scheme>> \o ref
  ELSE IF Head(ref) = "/"
    THEN <<base.scheme, "/", "/", base.netloc>> \o PathString(RemoveDots(Segments(ref), <<>>))
  ELSE <<base.scheme, "/", "/", base.netloc>>
         \o PathString(RemoveDots(SubSeq(base.path, 1, Len(base.path) - 1) \o Segments(ref),
                                  <<>>))

(***************************************************************************)
(* Blocked content.                                                         *)
(***************************************************************************)
\* url_parser.py:19-24
BLOCKED_KEYWORDS ==
  { <<"i", "d", "e", "n", "t", "i", "t", "y", " ", "v", "e", "r", "i", "f", "i", "e", "d">>,
    <<"v", "e", "r", "i", "f", "y", " ", "y", "o", "u", "r", " ",
      "i", "d", "e", "n", "t", "i", "t", "y">>,
    <<"a", "r", "e", " ", "y", "o", "u", " ", "a", " ", "r", "e", "a", "l", " ", "f", "a", "n">>,
    <<"j", "u", "s", "t", " ", "a", " ", "m", "o", "m", "e", "n", "t">> }

\* url_parser.py:674  any(k in card.title.lower() for k in BLOCKED_KEYWORDS)
HasBlockedKeyword(s) == \E k \in BLOCKED_KEYWORDS : Contains(Lower(s), k)

\* url_parser.py:477  has_fragment = bool(urlsplit(url).fragment)
HasFragment(u) == u.fragment # ""

(***************************************************************************)
(* The HTTP body as looks_blocked reads it: the phrases occurring in it (as *)
(* written), the length of its stripped text and of its whitespace padding. *)
(***************************************************************************)
BlockedSignals ==
  { "403 error", "request could not be satisfied", "access denied",
    "cloudfront", "akamai", "bot detection", "captcha", "incapsula",
    "verify that you're not a robot", "javascript is disabled", "aws waf" }

BlockedMinLen == 1200

\* str.lower() on the phrases the model's bodies are built from
LowerPhrase(p) ==
  CASE p = "Access Denied" -> "access denied"
    [] p = "CAPTCHA" -> "captcha"
    [] p = "Holiday Tea" -> "holiday tea"
    [] OTHER -> p

\* a body that holds a phrase has text
Bodies ==
  { b \in [ phrases : { {}, {"Holiday Tea"}, {"Access Denied", "Holiday Tea"}, {"CAPTCHA"},
                        {"aws waf"} },
            core : {0, BlockedMinLen - 1, BlockedMinLen, 4 * BlockedMinLen},
            pad : {0, 7} ] :
      b.phrases # {} => b.core > 0 }

EmptyBody == [phrases |-> {}, core |-> 0, pad |-> 0]

\* len(html.strip())
StrippedLen(h) == h.core

\* url_parser.py:129-136
looks_blocked(h) ==
  (\E p \in h.phrases : LowerPhrase(p) \in BlockedSignals)
    \/ StrippedLen(h) < BlockedMinLen

HttpStatuses == {200, 403, 404, 429}

(***************************************************************************)
(* Partial fields, the card, and the adapters.                              *)
(***************************************************************************)
Fields == {"title", "description", "start_date", "end_date", "location", "image"}

EmptyFields == [f \in Fields |-> None]

\* What adapter a extracts from a payload it recognises.  Odd adapters are in
\* the style of adapters/timely.py (title and description only); even ones
\* yield the remaining fields and a description.
HitFields(a) ==
  IF a % 2 = 1
    THEN [EmptyFields EXCEPT !.title = Str(<<"X", "a">>), !.description = Str(<<"D", "a">>)]
    ELSE [EmptyFields EXCEPT !.description = Str(<<"D", "b">>),
                             !.start_date = Str(<<"2025-12-05", "T", "10:00:00", "+02:00">>),
                             !.location = Str(<<"L", "b">>),
                             !.image = Str(<<"/", "b.png">>)]

NoPayload == [some |-> FALSE, f |-> EmptyFields]
Payload(f) == [some |-> TRUE, f |-> f]

\* A network response as on_response reads it: its content-type header and,
\* per adapter, what match_response / resp.json() / extract_event do with it.
ContentTypes == {"", "text/html", "Application/JSON; charset=utf-8"}
\* "json" in ct.lower()
IsJsonCt(ct) == ct = "Application/JSON; charset=utf-8"
Outcomes == {"nomatch", "raise", "blank", "hit"}
\* every JSON response, and the responses of another content type on which
\* the adapters would all do the same
Responses ==
  { r \in [ct : ContentTypes, out : [1..NumAdapters -> Outcomes]] :
      IsJsonCt(r.ct) \/ \A a, b \in 1..NumAdapters : r.out[a] = r.out[b] }
NoResponse == [ct |-> "", out |-> [a \in 1..NumAdapters |-> "nomatch"]]

\* url_parser.py:90-100, the loop over ADAPTERS from adapter a on
RECURSIVE TryAdaptersLast(_, _, _)
TryAdaptersLast(r, a, acc) ==
  IF a > NumAdapters THEN acc
  ELSE IF r.out[a] = "hit" THEN TryAdaptersLast(r, a + 1, Payload(HitFields(a)))
  ELSE TryAdaptersLast(r, a + 1, acc)

RECURSIVE TryAdapters(_, _)
TryAdapters(r, a) ==
  IF a > NumAdapters THEN NoPayload
  ELSE IF r.out[a] = "hit" THEN Payload(HitFields(a))
  ELSE TryAdapters(r, a + 1)

OnResponseLastWins(ext, r) ==
  IF ~IsJsonCt(r.ct) THEN ext
  ELSE LET got == TryAdaptersLast(r, 1, NoPayload) IN IF got.some THEN got ELSE ext

\* url_parser.py:83-100
on_response(ext, r) ==
  IF ext.some THEN ext
  ELSE IF ~IsJsonCt(r.ct) THEN ext
  ELSE TryAdapters(r, 1)

(***************************************************************************)
(* adapters/timely.py: extract_event on a parsed JSON payload.              *)
(***************************************************************************)
\* _TAG_RE.sub("", s): "<", one or more characters other than ">", and ">"
RECURSIVE RemoveTags(_, _)
RemoveTags(s, p) ==
  IF p > Len(s) THEN <<>>
  ELSE IF s[p] = "<" /\ FindGt(s, p + 1) > p + 1
    THEN RemoveTags(s, FindGt(s, p + 1) + 1)
  ELSE <<s[p]>> \o RemoveTags(s, p + 1)

\* timely.py:13-18  _clean_text on a str: " ".join(s.split()).strip() or None
\* after unescaping and removing the tags
CleanText(v) ==
  IF ~Truthy(v) THEN None
  ELSE LET t == Strip(SubRuns(RemoveTags(Unescape(v.v), 1), 1)) IN
       IF t # <<>> THEN Str(t) ELSE None

\* timely.py:16-17  html.unescape and re.sub raise TypeError on a truthy value
\* that is not a str
CleanTextRaises(v) == Truthy(v) /\ ~IsStr(v)

\* the values a JSON document may hold under "title" or "description_short"
JsonTexts ==
  { None, Str(<<>>), Str(<<"T">>), Str(<<" ", "NL">>),
    Str(<<"<", "b", ">", "T", "&amp;", "<", "/", "b", ">", " ", " ", "t">>),
    Obj, List(<<Str(<<"T">>)>>), Dict(<<>>) }

\* the values a JSON document may hold under "data"
JsonData ==
  { None, Str(<<"x">>), Obj, List(<<>>), List(<<Obj>>), Dict(<<>>) }
    \cup { Dict(<< <<"title", t>>, <<"description_short", d>> >>) : t, d \in JsonTexts }

\* the results of resp.json()
JsonPayloads ==
  { None, Obj, Str(<<"x">>), List(<<>>), List(<<Dict(<<>>)>>), Dict(<<>>),
    Dict(<< <<"id", Obj>> >>) }
    \cup { Dict(<< <<"data", d>> >>) : d \in JsonData }

\* no call of extract_event is under way
NoCall == [at |-> "none", d |-> None, title |-> None, description |-> None]

(***************************************************************************)
(* The fetched document, as the extraction steps of parse_event read it:    *)
(*   ld, nx, og   the results of extract_from_ld_json,                      *)
(*                extract_from_next_data_generic and extract_open_graph     *)
(*   itemname     the first [itemprop=name] element's text, None if absent  *)
(*   ttag         the text of <title>, None if absent                       *)
(*   main         the result of extract_main_text                           *)
(*   times, arias, locitems, loctest   the elements the selectors of the    *)
(*                date and location fallbacks match, in document order;     *)
(*                chrome: the element sits inside header, nav, footer, form *)
(*   textdt       what extract_start_date_from_text finds in the fallback   *)
(*                text; dt: what it finds in an aria-label                  *)
(*   md           the result of extract_structured_location                 *)
(***************************************************************************)
TxJam == <<"J", "u", "s", "t", " ", "a", " ", "M", "o", "m", "e", "n", "t">>
TxJamNl == <<" ", "j", "u", "s", "t", " ", "a", "NL", "m", "o", "m", "e", "n", "t">>
TxJamEnt == <<"j", "u", "s", "t", "&nbsp;", "a", " ", "m", "o", "m", "e", "n", "t">>
TxMarkup == <<"D", "&amp;", "<", "b", ">", "d", "<", "/", "b", ">", "BACKSLASH", "n", "e">>
ImgAbs == <<"https:", "/", "/", "cdn.org", "/", "a.png">>
ImgRoot == <<" ", "/", "img", "/", "a.png">>
ImgProto == <<"/", "/", "cdn.org", "/", "a.png">>
ImgRel == <<"img", "/", "a.png">>
ImgUp == <<"..", "/", "a.png">>
IsoZoned == <<"2025-12-05", "T", "19:00:00", ".250", "-07:00">>
IsoPadded == <<" ", "2025-12-05", "T", "19:00:00", "-07:00">>
IsoNaive == <<"2025-12-06", "T", "19:00:00">>

EmptyDict == Dict(<<>>)

LdItems ==
  { EmptyDict,
    Dict(<< <<"@type", Str(<<"Event">>)>>, <<"name", Str(<<"Y">>)>>,
            <<"description", Str(TxMarkup)>>,
            <<"startDate", Str(IsoZoned)>>, <<"endDate", Str(<<"2025-12-06">>)>>,
            <<"location", Dict(<< <<"name", Str(<<"H", "a", "l", "l">>)>>,
                                  <<"address", Str(<<"1", " ", "M">>)>> >>)>>,
            <<"image", Str(ImgAbs)>> >>),
    Dict(<< <<"@type", Str(<<"Event">>)>>, <<"name", Obj>>,
            <<"image", List(<<Obj>>)>>, <<"location", Str(<<"H">>)>> >>),
    Dict(<< <<"@type", Str(<<"Event">>)>>, <<"name", Str(<<" ", " ">>)>>,
            <<"startDate", Str(<<" ">>)>>, <<"endDate", Obj>>,
            <<"location", List(<<Str(<<"H">>)>>)>>, <<"image", Obj>> >>),
    Dict(<< <<"@type", Str(<<"Event">>)>>,
            <<"startDate", Str(IsoPadded)>>, <<"endDate", Str(<<"Dec 6">>)>>,
            <<"location", List(<< Dict(<< <<"address",
                   Dict(<< <<"addressLocality", Str(<<" ", "D", "e", "n">>)>>,
                           <<"streetAddress", Str(<<"1", " ", "M">>)>>,
                           <<"postalCode", Obj>> >>)>> >>) >>)>>,
            <<"image", List(<<Str(ImgRel)>>)>> >>),
    Dict(<< <<"@type", Str(<<"Event">>)>>, <<"name", Str(TxJamNl)>>,
            <<"startDate", Obj>>,
            <<"location", Dict(<< <<"address", Str(<<" ", "1", " ", "M", " ">>)>> >>)>>,
            <<"image", Str(ImgUp)>> >>),
    Dict(<< <<"@type", Str(<<"Event">>)>>, <<"description", Obj>>,
            <<"location", Dict(<< <<"name", Obj>> >>)>> >>),
    Dict(<< <<"@type", Str(<<"Event">>)>>, <<"description", Str(<<"Y", "d">>)>>,
            <<"endDate", Str(IsoPadded)>> >>) }

\* extract_from_next_data_generic: {} or the dict _normalize_event_like_object builds
NxDict(title, description, start, end, location, image) ==
  Dict(<< <<"title", title>>, <<"description", description>>, <<"start_date", start>>,
          <<"end_date", end>>, <<"location", location>>, <<"image", image>> >>)
NxItems ==
  { EmptyDict,
    NxDict(Str(<<"N">>), Str(<<"N", "d">>), Str(IsoNaive), Str(<<"2025-12-06", "T", "00:00:00", "Z">>),
           Str(<<"V", ",", " ", "C">>), Str(ImgProto)),
    NxDict(Str(<<"<", "b", ">", "N", "<", "/", "b", ">">>), None, None, None, Str(<<"V">>), None) }

\* extract_open_graph: every value is a non-empty content attribute or None
OgDict(title, description, image, place, locality) ==
  Dict(<< <<"title", title>>, <<"description", description>>, <<"image", image>>,
          <<"locality", locality>>, <<"region", None>>, <<"country", None>>,
          <<"place", place>>, <<"street_address", None>> >>)
OgNone == OgDict(None, None, None, None, None)
OgDicts ==
  { OgNone,
    OgDict(Str(<<"O">>), Str(<<"O", "d">>), Str(ImgRoot), Str(<<"P", "l">>), Str(<<"D", "e", "n">>)),
    OgDict(Str(TxJamEnt), None, Str(ImgRel), None, None) }

MonthAbbrs ==
  { <<"j", "a", "n">>, <<"f", "e", "b">>, <<"m", "a", "r">>, <<"a", "p", "r">>,
    <<"m", "a", "y">>, <<"j", "u", "n">>, <<"j", "u", "l">>, <<"a", "u", "g">>,
    <<"s", "e", "p">>, <<"o", "c", "t">>, <<"n", "o", "v">>, <<"d", "e", "c">> }

LabelDec == <<" ", "D", "e", "c", " ", "5">>
LabelMenu == <<"M", "e", "n", "u">>

NoExtras ==
  [ itemname |-> None, ttag |-> None, main |-> None, times |-> <<>>, arias |-> <<>>,
    textdt |-> None, locitems |-> <<>>, loctest |-> <<>>, md |-> None ]

Extras ==
  { NoExtras,
    \* every fallback element present, in the page body
    [ itemname |-> Str(<<"I">>), ttag |-> Str(<<" ", "P", " ">>),
      main |-> Str(<<"M", " ", "m">>),
      times |-> << [chrome |-> FALSE, datetime |-> <<" ", "2025-12-06", " ">>] >>,
      arias |-> << [chrome |-> FALSE, label |-> LabelDec, dt |-> Str(<<"2025-12-05", "T", "00:00:00">>)] >>,
      textdt |-> Str(<<"2025-12-06", "T", "00:00:00">>),
      locitems |-> << [chrome |-> FALSE, text |-> <<"L", "i">>] >>,
      loctest |-> << [chrome |-> FALSE, text |-> <<"L", "t">>] >>,
      md |-> Str(<<"L", "m">>) ],
    \* elements inside the page header before those of the body
    [ itemname |-> Str(<<>>), ttag |-> Str(TxJam),
      main |-> Str(<<"M">>),
      times |-> << [chrome |-> TRUE, datetime |-> <<"2025-12-05">>],
                   [chrome |-> FALSE, datetime |-> <<>>] >>,
      arias |-> << [chrome |-> TRUE, label |-> LabelDec, dt |-> Str(<<"2025-12-05", "T", "00:00:00">>)],
                   [chrome |-> FALSE, label |-> LabelMenu, dt |-> None],
                   [chrome |-> FALSE, label |-> LabelDec, dt |-> Str(<<"2026-12-05", "T", "00:00:00">>)] >>,
      textdt |-> None,
      locitems |-> << [chrome |-> TRUE, text |-> <<"L", "h">>] >>,
      loctest |-> << [chrome |-> TRUE, text |-> <<"L", "h">>],
                     [chrome |-> FALSE, text |-> <<>>] >>,
      md |-> Str(<<"L", "m">>) ],
    \* only a <title>, date-bearing text and microdata
    [ NoExtras EXCEPT !.ttag = Str(<<"P">>), !.main = Str(<<"M">>),
                      !.textdt = Str(<<"2025-12-06", "T", "00:00:00">>),
                      !.md = Str(<<"L", "m">>) ] }

\* the document before any extraction step has read it
NoPage == [ld |-> EmptyDict, nx |-> EmptyDict, og |-> OgNone, x |-> NoExtras]

(***************************************************************************)
(* parse_event: the extraction steps, each as a function on the card.       *)
(***************************************************************************)
DescLimit == 280
AriaMaxLen == 80

\* the elements a selector still finds once extract_main_text has decomposed
\* the header, nav, footer and form elements of the soup
Remaining(els, dec) == SelectSeq(els, LAMBDA e : ~(dec /\ e.chrome))

\* url_parser.py:494-503
ApplyNetwork(c, ext) ==
  LET c1 == IF ext.some
              THEN [f \in Fields |-> Or(ext.f[f], c[f])]
              ELSE c
  IN [c1 EXCEPT !.start_date = normalize_iso_no_tz(c1.start_date),
                !.end_date = normalize_iso_no_tz(c1.end_date)]

\* url_parser.py:520-524  the location of a JSON-LD item
LdLocation(c, loc) ==
  IF IsDict(loc)
    THEN Or(Or(c.location, Get(loc, "name")), format_address(Get(loc, "address")))
  ELSE IF IsList(loc) /\ loc.v # <<>> /\ IsDict(loc.v[1])
    THEN Or(Or(c.location, Get(loc.v[1], "name")), format_address(Get(loc.v[1], "address")))
  ELSE c.location

\* url_parser.py:526-530  the image of a JSON-LD item
LdImage(c, img) ==
  IF IsStr(img) THEN Or(c.image, img)
  ELSE IF IsList(img) /\ img.v # <<>>
    THEN Or(c.image, IF IsStr(img.v[1]) THEN img.v[1] ELSE None)
  ELSE c.image

\* A variant of the JSON-LD step in which the item's values come first
ApplyLdItemFirst(c, ld) ==
  IF ~Truthy(ld) THEN c
  ELSE [c EXCEPT !.title = Or(Get(ld, "name"), c.title),
                 !.description = Or(Get(ld, "description"), c.description),
                 !.start_date = normalize_iso_no_tz(Or(Get(ld, "startDate"), c.start_date)),
                 !.end_date = normalize_iso_no_tz(Or(Get(ld, "endDate"), c.end_date)),
                 !.location = LdLocation(c, Get(ld, "location")),
                 !.image = LdImage(c, Get(ld, "image"))]

\* url_parser.py:509-530
ApplyLd(c, ld) ==
  IF ~Truthy(ld) THEN c
  ELSE [c EXCEPT !.title = Or(c.title, Get(ld, "name")),
                 !.description = Or(c.description, Get(ld, "description")),
                 !.start_date = normalize_iso_no_tz(Or(c.start_date, Get(ld, "startDate"))),
                 !.end_date = normalize_iso_no_tz(Or(c.end_date, Get(ld, "endDate"))),
                 !.location = LdLocation(c, Get(ld, "location")),
                 !.image = LdImage(c, Get(ld, "image"))]

\* url_parser.py:536-547
ApplyNx(c, nx) ==
  IF ~Truthy(nx) THEN c
  ELSE [c EXCEPT !.title = Or(c.title, Get(nx, "title")),
                 !.description = Or(c.description, Get(nx, "description")),
                 !.start_date = normalize_iso_no_tz(Or(c.start_date, Get(nx, "start_date"))),
                 !.end_date = normalize_iso_no_tz(Or(c.end_date, Get(nx, "end_date"))),
                 !.location = Or(c.location, Get(nx, "location")),
                 !.image = Or(c.image, Get(nx, "image"))]

\* url_parser.py:553-563  itemname: the text of the first [itemprop=name]
\* element (None: no such element); ttag: the text of <title>
ApplyOg(c, ogd, itemname, ttag) ==
  LET t1 == IF ~Truthy(c.title) /\ itemname # None
              THEN (IF Truthy(itemname) THEN itemname ELSE None)
              ELSE c.title
      t2 == Or(Or(t1, Get(ogd, "title")),
               IF ttag # None THEN Str(Strip(ttag.v)) ELSE None)
  IN [c EXCEPT !.title = t2,
               !.description = Or(c.description, Get(ogd, "description")),
               !.image = Or(c.image, Get(ogd, "image"))]

\* url_parser.py:571-572
ApplyMain(c, main) ==
  IF ~Truthy(c.description) /\ Truthy(main)
    THEN [c EXCEPT !.description = Str(SubSeq(main.v, 1, Min(DescLimit, Len(main.v))))]
    ELSE c

\* url_parser.py:574  fallback_text = card.description or main or ""
FallbackText(c, main) == Or(Or(c.description, main), Str(<<>>))

\* url_parser.py:580-583
ApplyTime(c, times, dec) ==
  LET r == Remaining(times, dec) IN
  IF ~Truthy(c.start_date) /\ r # <<>> /\ r[1].datetime # <<>>
    THEN [c EXCEPT !.start_date = normalize_iso_no_tz(Str(Strip(r[1].datetime)))]
    ELSE c

\* url_parser.py:590-599  the date of the first short aria-label that names a
\* month and in which the date search finds a date
RECURSIVE FirstAriaDate(_)
FirstAriaDate(els) ==
  IF els = <<>> THEN None
  ELSE LET aria == Strip(Head(els).label) IN
       IF /\ 0 < Len(aria) /\ Len(aria) <= AriaMaxLen
          /\ \E m \in MonthAbbrs : Contains(Lower(aria), m)
          /\ Truthy(Head(els).dt)
         THEN Head(els).dt
         ELSE FirstAriaDate(Tail(els))

\* url_parser.py:589-599
ApplyAria(c, arias, dec) ==
  LET dt == FirstAriaDate(Remaining(arias, dec)) IN
  IF ~Truthy(c.start_date) /\ Truthy(dt) THEN [c EXCEPT !.start_date = dt] ELSE c

\* url_parser.py:605-606, 266-268
ApplyText(c, fb, textdt) ==
  IF ~Truthy(c.start_date)
    THEN [c EXCEPT !.start_date = IF Truthy(fb) THEN textdt ELSE None]
    ELSE c

\* url_parser.py:612-616 and 618-622  el.get_text(" ", strip=True) of the first match
ApplyLocElement(c, els, dec) ==
  LET r == Remaining(els, dec) IN
  IF ~Truthy(c.location) /\ r # <<>>
    THEN [c EXCEPT !.location = IF Strip(r[1].text) # <<>> THEN Str(Strip(r[1].text)) ELSE None]
    ELSE c

RECURSIVE OgParts(_, _)
OgParts(ogd, keys) ==
  IF keys = <<>> THEN <<>>
  ELSE (IF Truthy(Get(ogd, Head(keys))) THEN <<Get(ogd, Head(keys)).v>> ELSE <<>>)
         \o OgParts(ogd, Tail(keys))

\* url_parser.py:624-637
ApplyLocOg(c, ogd) ==
  LET parts == OgParts(ogd, <<"place", "street_address", "locality", "region", "country">>) IN
  IF ~Truthy(c.location) /\ parts # <<>>
    THEN [c EXCEPT !.location = Str(Join(parts))]
    ELSE c

\* url_parser.py:643-644
ApplyMd(c, md) ==
  IF ~Truthy(c.location) THEN [c EXCEPT !.location = md] ELSE c

\* url_parser.py:650-654
StripField(v) ==
  IF IsStr(v) THEN (IF Strip(v.v) # <<>> THEN Str(Strip(v.v)) ELSE None) ELSE v

\* url_parser.py:667-668
ResolveImage(u, img) ==
  IF Truthy(img) /\ StartsWith(img.v, <<"/">>) THEN Str(urljoin(u, img.v)) ELSE img

\* url_parser.py:650-672  (for a card whose text fields are str or None)
CleanupCard(c, u) ==
  LET c1 == [f \in Fields |-> StripField(c[f])]
      title == IF Truthy(c1.title) THEN Str(Unescape(c1.title.v)) ELSE c1.title
      desc == IF Truthy(c1.description)
                THEN Str(GetText(ReplaceBackslashN(Unescape(c1.description.v), 1)))
                ELSE c1.description
      loc == IF Truthy(c1.location) THEN Str(Unescape(c1.location.v)) ELSE c1.location
  IN [c1 EXCEPT !.title = clean_whitespace(title),
                !.description = clean_whitespace(desc),
                !.location = clean_whitespace(loc),
                !.image = ResolveImage(u, c1.image)]

\* A variant of the final source rule that looks at the title as found
FinalSourceExact(c, src) ==
  IF Truthy(c.title) /\ (\E k \in BLOCKED_KEYWORDS : Contains(c.title.v, k))
    THEN "blocked" ELSE src

\* url_parser.py:674-675
FinalSource(c, src) ==
  IF Truthy(c.title) /\ HasBlockedKeyword(c.title.v) THEN "blocked" ELSE src

\* a text field that is truthy and not a str: .replace / re.sub raise on it
BadText(v) == Truthy(v) /\ ~IsStr(v)

VARIABLES
  pc,          \* position of the thread of control
  i,           \* number of URLs taken from the list so far
  url,         \* the URL being processed
  rows,        \* out_rows: "card" or "error" per processed URL
  sess,        \* the PlaywrightSession: what is alive (driver, browser, context, page)
  closeCalls,  \* number of calls of PlaywrightSession.close
  listeners,   \* the fetches whose on_response is attached to the page
  extracted,   \* fetch's local `extracted`
  fstat,       \* what the current fetch has done so far
  lastResp,    \* the response the listener of this fetch observed last
  http,        \* outcome of fetch_with_requests: status and body
  source,      \* parse_event's local `source`, then card.source
  page,        \* parse_event's local `soup`: what the steps have found in the document
  card,        \* the EventCard's six fields
  og,          \* parse_event's local `og`
  decomposed,  \* extract_main_text has removed header/nav/footer/form from the soup
  fallback,    \* parse_event's local `fallback_text`
  exc,         \* the exception propagating, "" if none
  payload,     \* the parsed JSON handed to an adapter's extract_event
  call         \* that call of extract_event: its position and its locals

batchVars == <<i, url, rows>>
sessVars == <<sess, closeCalls, listeners>>
fetchVars == <<extracted, fstat, lastResp>>
docVars == <<page, card, og, decomposed, fallback>>
adapterVars == <<payload, call>>

vars == <<pc, i, url, rows, sess, closeCalls, listeners, extracted, fstat, lastResp,
          http, source, page, card, og, decomposed, fallback, exc, payload, call>>

\* called: fetch was entered; nresp: responses observed; waits: calls of
\* wait_for_timeout; scrolls: calls of page.evaluate; scrollOk: the scroll did
\* not raise; atNav: `extracted` was set when goto ended; read: page.content()
\* returned; stale: `extracted` was set from a response of the document that
\* the page held before this fetch
NoFetch == [called |-> FALSE, nresp |-> 0, waits |-> 0, scrolls |-> 0,
            scrollOk |-> FALSE, atNav |-> FALSE, read |-> FALSE, stale |-> FALSE]
NoHttp == [status |-> 0, body |-> EmptyBody]
NoUrl == [scheme |-> "https:", netloc |-> "", path |-> <<>>, fragment |-> ""]

\* the batch run before its first step
InitRun ==
  /\ pc = "start"
  /\ i = 0
  /\ url = NoUrl
  /\ rows = <<>>
  /\ sess = [started |-> FALSE, page |-> FALSE, context |-> FALSE, browser |-> FALSE,
             navigated |-> FALSE,
             driver |-> FALSE]
  /\ closeCalls = 0
  /\ listeners = {}
  /\ extracted = NoPayload
  /\ fstat = NoFetch
  /\ lastResp = NoResponse
  /\ http = NoHttp
  /\ source = ""
  /\ page = NoPage
  /\ card = EmptyFields
  /\ og = OgNone
  /\ decomposed = FALSE
  /\ fallback = None
  /\ exc = ""

Init ==
  /\ InitRun
  /\ payload = None
  /\ call = NoCall

\* the frame of parse_event (and of fetch) is gone
ResetLocals ==
  /\ extracted' = NoPayload
  /\ fstat' = NoFetch
  /\ lastResp' = NoResponse
  /\ http' = NoHttp
  /\ source' = ""
  /\ page' = NoPage
  /\ card' = EmptyFields
  /\ og' = OgNone
  /\ decomposed' = FALSE
  /\ fallback' = None

(***************************************************************************)
(* app.py: the batch run.                                                   *)
(***************************************************************************)
InParse == pc \notin {"start", "loop", "finally", "c_page", "c_context", "c_browser",
                      "c_stop", "exit"}

\* app.py:178, url_parser.py:40-68.  The driver is started first; launching
\* the browser or opening the context may raise, and then no session exists.
StartSession ==
  /\ pc = "start"
  /\ \E ok \in BOOLEAN :
       IF ok
         THEN /\ sess' = [started |-> TRUE, page |-> TRUE, context |-> TRUE,
                          navigated |-> FALSE,
                          browser |-> TRUE, driver |-> TRUE]
              /\ pc' = "loop"
              /\ exc' = exc
         ELSE /\ sess' = [sess EXCEPT !.driver = TRUE]
              /\ pc' = "exit"
              /\ exc' = "Error"
  /\ UNCHANGED <<batchVars, closeCalls, listeners, fetchVars, http, source, docVars>>
  /\ UNCHANGED adapterVars

\* app.py:180-182  the next item of the list
NextUrl ==
  /\ pc = "loop"
  /\ i < NumUrls
  /\ \E u \in Urls : url' = u
  /\ i' = i + 1
  /\ pc' = "http"
  /\ UNCHANGED <<rows, sessVars, fetchVars, http, source, docVars, exc>>
  /\ UNCHANGED adapterVars

\* app.py:180, 204  the list is exhausted: leave the loop for the finally block
LoopDone ==
  /\ pc = "loop"
  /\ pc' = "finally"
  /\ UNCHANGED <<batchVars, sessVars, fetchVars, http, source, docVars, exc>>
  /\ UNCHANGED adapterVars

\* app.py:187-201  an Exception of parse_event becomes an error row
Except ==
  /\ pc = "except"
  /\ rows' = Append(rows, "error")
  /\ exc' = ""
  /\ pc' = "loop"
  /\ ResetLocals
  /\ UNCHANGED <<i, url, sessVars>>
  /\ UNCHANGED adapterVars

\* app.py:179, 204  a BaseException that `except Exception` does not catch
\* (KeyboardInterrupt) leaves the loop through the finally block
Interrupt ==
  /\ InParse
  /\ exc' = "KeyboardInterrupt"
  /\ pc' = "finally"
  /\ ResetLocals
  /\ UNCHANGED <<batchVars, sessVars>>
  /\ UNCHANGED adapterVars

(***************************************************************************)
(* PlaywrightSession.close, called from the finally block.                  *)
(***************************************************************************)
\* app.py:204-205
Finally ==
  /\ pc = "finally"
  /\ closeCalls' = closeCalls + 1
  /\ pc' = "c_page"
  /\ UNCHANGED <<batchVars, sess, listeners, fetchVars, http, source, docVars, exc>>
  /\ UNCHANGED adapterVars

\* url_parser.py:71-74  page.close(); an exception is swallowed
ClosePage ==
  /\ pc = "c_page"
  /\ \E ok \in BOOLEAN : sess' = IF ok THEN [sess EXCEPT !.page = FALSE] ELSE sess
  /\ pc' = "c_context"
  /\ UNCHANGED <<batchVars, closeCalls, listeners, fetchVars, http, source, docVars, exc>>
  /\ UNCHANGED adapterVars

\* url_parser.py:75  self._context.close(); an exception leaves close()
CloseContext ==
  /\ pc = "c_context"
  /\ \E ok \in BOOLEAN :
       IF ok
         THEN /\ sess' = [sess EXCEPT !.context = FALSE, !.page = FALSE]
              /\ pc' = "c_browser"
              /\ exc' = exc
         ELSE /\ sess' = sess
              /\ pc' = "exit"
              /\ exc' = "CloseError"
  /\ UNCHANGED <<batchVars, closeCalls, listeners, fetchVars, http, source, docVars>>
  /\ UNCHANGED adapterVars

\* url_parser.py:76  self._browser.close()
CloseBrowser ==
  /\ pc = "c_browser"
  /\ \E ok \in BOOLEAN :
       IF ok
         THEN /\ sess' = [sess EXCEPT !.browser = FALSE, !.page = FALSE, !.context = FALSE]
              /\ pc' = "c_stop"
              /\ exc' = exc
         ELSE /\ sess' = sess
              /\ pc' = "exit"
              /\ exc' = "CloseError"
  /\ UNCHANGED <<batchVars, closeCalls, listeners, fetchVars, http, source, docVars>>
  /\ UNCHANGED adapterVars

\* url_parser.py:77  self._p.stop()
StopDriver ==
  /\ pc = "c_stop"
  /\ sess' = [sess EXCEPT !.driver = FALSE]
  /\ pc' = "exit"
  /\ UNCHANGED <<batchVars, closeCalls, listeners, fetchVars, http, source, docVars, exc>>
  /\ UNCHANGED adapterVars

(***************************************************************************)
(* parse_event: the fetch strategy.                                         *)
(***************************************************************************)
\* url_parser.py:139-150, 478  SESSION.get raises on a network error, and
\* nothing in parse_event catches it
HttpFetch ==
  /\ pc = "http"
  /\ \/ /\ exc' = "RequestException"
        /\ pc' = "except"
        /\ http' = http
     \/ /\ \E st \in HttpStatuses, b \in Bodies : http' = [status |-> st, body |-> b]
        /\ pc' = "decide"
        /\ exc' = exc
  /\ UNCHANGED <<batchVars, sessVars, fetchVars, source, docVars>>
  /\ UNCHANGED adapterVars

\* A variant of the rule that ignores the fragment
NeedsBrowserNoFragment(u, h) ==
  h.status \in {403, 429} \/ looks_blocked(h.body)

\* url_parser.py:480
NeedsBrowser(u, h) ==
  HasFragment(u) \/ h.status \in {403, 429} \/ looks_blocked(h.body)

\* url_parser.py:480-485  on the HTTP path the body is the document and there
\* is no adapter payload
Decide ==
  /\ pc = "decide"
  /\ IF NeedsBrowser(url, http)
       THEN /\ pc' = "f_on"
            /\ UNCHANGED <<source, extracted>>
       ELSE /\ pc' = "soup"
            /\ source' = "requests"
            /\ extracted' = NoPayload
  /\ UNCHANGED <<batchVars, sessVars, fstat, lastResp, http, docVars, exc>>
  /\ UNCHANGED adapterVars

(***************************************************************************)
(* PlaywrightSession.fetch.                                                 *)
(***************************************************************************)
\* url_parser.py:80-102  extracted = None; page.on("response", on_response)
FetchOn ==
  /\ pc = "f_on"
  /\ extracted' = NoPayload
  /\ listeners' = listeners \cup {i}
  /\ fstat' = [NoFetch EXCEPT !.called = TRUE]
  /\ lastResp' = NoResponse
  /\ http' = NoHttp
  /\ pc' = "f_goto"
  /\ UNCHANGED <<batchVars, sess, closeCalls, source, docVars, exc>>
  /\ UNCHANGED adapterVars

\* The blocking Playwright calls of fetch, during which the page's events are
\* dispatched: goto (105), wait_for_timeout (116, 121), evaluate (120),
\* content (111, 125)
Blocking == {"f_goto", "f_wait1", "f_scroll", "f_wait2", "f_content1", "f_content2"}

\* url_parser.py:83-100  a response event reaches the listener of this fetch
Deliver ==
  /\ pc \in Blocking
  /\ i \in listeners
  /\ fstat.nresp < MaxResponses
  /\ \E r \in Responses :
       /\ extracted' = on_response(extracted, r)
       /\ lastResp' = r
  /\ fstat' = [fstat EXCEPT !.nresp = @ + 1]
  /\ UNCHANGED <<pc, batchVars, sessVars, http, source, docVars, exc>>
  /\ UNCHANGED adapterVars

\* url_parser.py:81, 102-105  the session's one page is reused: while goto
\* blocks, and until the new document replaces the old one, the events that the
\* previous document's requests still produce are dispatched to the listener
\* this fetch attached
DeliverStale ==
  /\ pc = "f_goto"
  /\ sess.navigated
  /\ i \in listeners
  /\ fstat.nresp < MaxResponses
  /\ \E r \in Responses :
       /\ extracted' = on_response(extracted, r)
       /\ lastResp' = r
       /\ fstat' = [fstat EXCEPT !.nresp = @ + 1,
                                 !.stale = @ \/ (~extracted.some /\ on_response(extracted, r).some)]
  /\ UNCHANGED <<pc, batchVars, sessVars, http, source, docVars, exc>>
  /\ UNCHANGED adapterVars

\* url_parser.py:104-107  goto returns, or raises and the exception is swallowed;
\* the page has been navigated
Goto ==
  /\ pc = "f_goto"
  /\ pc' = "f_branch"
  /\ sess' = [sess EXCEPT !.navigated = TRUE]
  /\ UNCHANGED <<batchVars, closeCalls, listeners, fetchVars, http, source, docVars, exc>>
  /\ UNCHANGED adapterVars

\* A variant of fetch that settles and scrolls whatever was captured
BranchAlwaysSettles ==
  /\ pc = "f_branch"
  /\ pc' = "f_wait1"
  /\ fstat' = [fstat EXCEPT !.atNav = extracted.some]
  /\ UNCHANGED <<batchVars, sessVars, extracted, lastResp, http, source, docVars, exc>>
  /\ UNCHANGED adapterVars

\* url_parser.py:110, 116
Branch ==
  /\ pc = "f_branch"
  /\ pc' = IF extracted.some THEN "f_content1" ELSE "f_wait1"
  /\ fstat' = [fstat EXCEPT !.atNav = extracted.some]
  /\ UNCHANGED <<batchVars, sessVars, extracted, lastResp, http, source, docVars, exc>>
  /\ UNCHANGED adapterVars

\* url_parser.py:116  page.wait_for_timeout(150), outside any try
Wait1 ==
  /\ pc = "f_wait1"
  /\ fstat' = [fstat EXCEPT !.waits = @ + 1]
  /\ \/ pc' = "f_scroll" /\ exc' = exc
     \/ pc' = "except" /\ exc' = "PlaywrightError"
  /\ UNCHANGED <<batchVars, sessVars, extracted, lastResp, http, source, docVars>>
  /\ UNCHANGED adapterVars

\* url_parser.py:119-120, 122-123  the scroll; an exception skips the wait
Scroll ==
  /\ pc = "f_scroll"
  /\ \E ok \in BOOLEAN :
       /\ fstat' = [fstat EXCEPT !.scrolls = @ + 1, !.scrollOk = ok]
       /\ pc' = IF ok THEN "f_wait2" ELSE "f_content2"
  /\ UNCHANGED <<batchVars, sessVars, extracted, lastResp, http, source, docVars, exc>>
  /\ UNCHANGED adapterVars

\* url_parser.py:121-123  the wait after the scroll; an exception is swallowed
Wait2 ==
  /\ pc = "f_wait2"
  /\ fstat' = [fstat EXCEPT !.waits = @ + 1]
  /\ pc' = "f_content2"
  /\ UNCHANGED <<batchVars, sessVars, extracted, lastResp, http, source, docVars, exc>>
  /\ UNCHANGED adapterVars

\* url_parser.py:111, 125  html = page.content(), outside any try
Content ==
  /\ pc \in {"f_content1", "f_content2"}
  /\ \/ /\ pc' = "f_rm"
        /\ fstat' = [fstat EXCEPT !.read = TRUE]
        /\ exc' = exc
     \/ /\ pc' = "except"
        /\ fstat' = fstat
        /\ exc' = "PlaywrightError"
  /\ UNCHANGED <<batchVars, sessVars, extracted, lastResp, http, source, docVars>>
  /\ UNCHANGED adapterVars

\* url_parser.py:112-113, 126-127, 481-482  remove the listener and return
\* (html, extracted); parse_event sets source = "playwright"
RemoveListener ==
  /\ pc = "f_rm"
  /\ listeners' = listeners \ {i}
  /\ source' = "playwright"
  /\ pc' = "soup"
  /\ UNCHANGED <<batchVars, sess, closeCalls, fetchVars, http, docVars, exc>>
  /\ UNCHANGED adapterVars

(***************************************************************************)
(* parse_event: extraction, in the order of the code.                       *)
(***************************************************************************)
\* url_parser.py:487-503  the soup, the card, and the adapter payload
NetworkJson ==
  /\ pc = "soup"
  /\ card' = ApplyNetwork(EmptyFields, extracted)
  /\ pc' = "s_ld"
  /\ fstat' = [NoFetch EXCEPT !.called = fstat.called]
  /\ lastResp' = NoResponse
  /\ http' = NoHttp
  /\ UNCHANGED <<batchVars, sessVars, extracted, source, page, og, decomposed, fallback, exc>>
  /\ UNCHANGED adapterVars

\* url_parser.py:509-530  what extract_from_ld_json finds in the document
JsonLd ==
  /\ pc = "s_ld"
  /\ \E ld \in LdItems :
       /\ page' = [page EXCEPT !.ld = ld]
       /\ card' = ApplyLd(card, ld)
  /\ pc' = "s_nx"
  /\ UNCHANGED <<batchVars, sessVars, fetchVars, http, source, og, decomposed, fallback, exc>>
  /\ UNCHANGED adapterVars

\* url_parser.py:536-547  what extract_from_next_data_generic finds
NextData ==
  /\ pc = "s_nx"
  /\ \E nx \in NxItems :
       /\ page' = [page EXCEPT !.nx = nx]
       /\ card' = ApplyNx(card, nx)
  /\ pc' = "s_og"
  /\ UNCHANGED <<batchVars, sessVars, fetchVars, http, source, og, decomposed, fallback, exc>>
  /\ UNCHANGED adapterVars

\* url_parser.py:553-563  what extract_open_graph finds, and the elements of
\* the document that this and the later steps select
OpenGraph ==
  /\ pc = "s_og"
  /\ \E o \in OgDicts, e \in Extras :
       /\ page' = [page EXCEPT !.og = o, !.x = e]
       /\ og' = o
       /\ card' = ApplyOg(card, o, e.itemname, e.ttag)
  /\ pc' = "s_main"
  /\ UNCHANGED <<batchVars, sessVars, fetchVars, http, source, decomposed, fallback, exc>>
  /\ UNCHANGED adapterVars

\* url_parser.py:569-574, 204-227  extract_main_text decomposes the soup
MainText ==
  /\ pc = "s_main"
  /\ decomposed' = TRUE
  /\ card' = ApplyMain(card, page.x.main)
  /\ fallback' = FallbackText(ApplyMain(card, page.x.main), page.x.main)
  /\ pc' = "s_time"
  /\ UNCHANGED <<batchVars, sessVars, fetchVars, http, source, page, og, exc>>
  /\ UNCHANGED adapterVars

\* url_parser.py:580-583
TimeTag ==
  /\ pc = "s_time"
  /\ card' = ApplyTime(card, page.x.times, decomposed)
  /\ pc' = "s_aria"
  /\ UNCHANGED <<batchVars, sessVars, fetchVars, http, source, page, og, decomposed, fallback, exc>>
  /\ UNCHANGED adapterVars

\* url_parser.py:589-599
AriaLabel ==
  /\ pc = "s_aria"
  /\ card' = ApplyAria(card, page.x.arias, decomposed)
  /\ pc' = "s_text"
  /\ UNCHANGED <<batchVars, sessVars, fetchVars, http, source, page, og, decomposed, fallback, exc>>
  /\ UNCHANGED adapterVars

\* url_parser.py:605-606, 270  re.sub raises on a description that is not a str
TextDate ==
  /\ pc = "s_text"
  /\ IF ~Truthy(card.start_date) /\ BadText(fallback)
       THEN /\ pc' = "except"
            /\ exc' = "TypeError"
            /\ card' = card
       ELSE /\ pc' = "s_locitem"
            /\ exc' = exc
            /\ card' = ApplyText(card, fallback, page.x.textdt)
  /\ UNCHANGED <<batchVars, sessVars, fetchVars, http, source, page, og, decomposed, fallback>>
  /\ UNCHANGED adapterVars

\* url_parser.py:612-616
LocItemprop ==
  /\ pc = "s_locitem"
  /\ card' = ApplyLocElement(card, page.x.locitems, decomposed)
  /\ pc' = "s_loctest"
  /\ UNCHANGED <<batchVars, sessVars, fetchVars, http, source, page, og, decomposed, fallback, exc>>
  /\ UNCHANGED adapterVars

\* url_parser.py:618-622
LocTestid ==
  /\ pc = "s_loctest"
  /\ card' = ApplyLocElement(card, page.x.loctest, decomposed)
  /\ pc' = "s_locog"
  /\ UNCHANGED <<batchVars, sessVars, fetchVars, http, source, page, og, decomposed, fallback, exc>>
  /\ UNCHANGED adapterVars

\* url_parser.py:624-637
LocOpenGraph ==
  /\ pc = "s_locog"
  /\ card' = ApplyLocOg(card, og)
  /\ pc' = "s_md"
  /\ UNCHANGED <<batchVars, sessVars, fetchVars, http, source, page, og, decomposed, fallback, exc>>
  /\ UNCHANGED adapterVars

\* url_parser.py:643-644, 445-447  extruct.extract is called when no location
\* was found; it raises on structured data it cannot parse (malformed JSON-LD
\* included), and nothing catches that
LocMicrodata ==
  /\ pc = "s_md"
  /\ \/ /\ card' = ApplyMd(card, page.x.md)
        /\ pc' = "cleanup"
        /\ exc' = exc
     \/ /\ ~Truthy(card.location)
        /\ card' = card
        /\ pc' = "except"
        /\ exc' = "ExtructError"
  /\ UNCHANGED <<batchVars, sessVars, fetchVars, http, source, page, og, decomposed, fallback>>
  /\ UNCHANGED adapterVars

\* url_parser.py:650-677  .replace and re.sub raise on a truthy value that is
\* not a str
Cleanup ==
  /\ pc = "cleanup"
  /\ IF BadText(card.title) \/ BadText(card.description) \/ BadText(card.location)
       THEN /\ pc' = "except"
            /\ exc' = "AttributeError"
            /\ UNCHANGED <<card, source>>
       ELSE /\ pc' = "ret"
            /\ exc' = exc
            /\ card' = CleanupCard(card, url)
            /\ source' = FinalSource(CleanupCard(card, url), source)
  /\ UNCHANGED <<batchVars, sessVars, fetchVars, http, page, og, decomposed, fallback>>
  /\ UNCHANGED adapterVars

\* app.py:185-186, 203  parse_event returned the card: one more row
Return ==
  /\ pc = "ret"
  /\ rows' = Append(rows, "card")
  /\ pc' = "loop"
  /\ ResetLocals
  /\ UNCHANGED <<i, url, sessVars, exc>>
  /\ UNCHANGED adapterVars

Next ==
  \/ StartSession \/ NextUrl \/ LoopDone \/ Except \/ Interrupt
  \/ Finally \/ ClosePage \/ CloseContext \/ CloseBrowser \/ StopDriver
  \/ HttpFetch \/ Decide
  \/ FetchOn \/ Deliver \/ DeliverStale \/ Goto \/ Branch \/ Wait1 \/ Scroll \/ Wait2 \/ Content
  \/ RemoveListener
  \/ NetworkJson \/ JsonLd \/ NextData \/ OpenGraph \/ MainText \/ TimeTag \/ AriaLabel
  \/ TextDate \/ LocItemprop \/ LocTestid \/ LocOpenGraph \/ LocMicrodata \/ Cleanup
  \/ Return

Spec == Init /\ [][Next]_vars

(***************************************************************************)
(* adapters/timely.py: one call of extract_event, on any parsed payload.    *)
(***************************************************************************)
mainVars == <<pc, batchVars, sessVars, fetchVars, http, source, docVars, exc>>

InitAdapter ==
  /\ InitRun
  /\ payload \in JsonPayloads
  /\ call = [NoCall EXCEPT !.at = "entry"]

\* timely.py:21  d = (payload or {}).get("data") or {}: .get exists on a dict
\* only
GetData ==
  /\ call.at = "entry"
  /\ LET p == Or(payload, Dict(<<>>)) IN
       IF IsDict(p)
         THEN call' = [call EXCEPT !.at = "data", !.d = Or(Get(p, "data"), Dict(<<>>))]
         ELSE call' = [call EXCEPT !.at = "raised"]
  /\ UNCHANGED <<mainVars, payload>>

\* timely.py:23  "title": _clean_text(d.get("title"))
CleanTitle ==
  /\ call.at = "data"
  /\ IF ~IsDict(call.d) \/ CleanTextRaises(Get(call.d, "title"))
       THEN call' = [call EXCEPT !.at = "raised"]
       ELSE call' = [call EXCEPT !.at = "title", !.title = CleanText(Get(call.d, "title"))]
  /\ UNCHANGED <<mainVars, payload>>

\* timely.py:24  "description": _clean_text(d.get("description_short"))
CleanDescription ==
  /\ call.at = "title"
  /\ IF CleanTextRaises(Get(call.d, "description_short"))
       THEN call' = [call EXCEPT !.at = "raised"]
       ELSE call' = [call EXCEPT !.at = "done",
                                 !.description = CleanText(Get(call.d, "description_short"))]
  /\ UNCHANGED <<mainVars, payload>>

NextAdapter == GetData \/ CleanTitle \/ CleanDescription

SpecAdapter == InitAdapter /\ [][NextAdapter]_vars

(***************************************************************************)
(* Properties.                                                              *)
(***************************************************************************)
StrategySteps == {"s_ld", "s_nx", "s_og", "s_main", "s_time", "s_aria", "s_text",
                  "s_locitem", "s_loctest", "s_locog", "s_md"}

\* C1: in parse_event, a field that is non-empty when a strategy step after
\* the network-JSON step starts has the same value when that step ends
C1_FillOnce ==
  [][(pc \in StrategySteps /\ pc' \notin {"except", "finally"})
       => \A f \in Fields : Truthy(card[f]) => card'[f] = card[f]]_vars

\* what each strategy yields for field f; a date is what the normalizer makes
\* of the value found
Normalized(f, v) == IF f \in {"start_date", "end_date"} THEN normalize_iso_no_tz(v) ELSE v
NetYield(f) == IF extracted.some THEN Normalized(f, extracted.f[f]) ELSE None
LdYield(f) ==
  IF ~Truthy(page.ld) THEN None
  ELSE CASE f = "title" -> Get(page.ld, "name")
         [] f = "description" -> Get(page.ld, "description")
         [] f = "start_date" -> normalize_iso_no_tz(Get(page.ld, "startDate"))
         [] f = "end_date" -> normalize_iso_no_tz(Get(page.ld, "endDate"))
         [] f = "location" -> LdLocation(EmptyFields, Get(page.ld, "location"))
         [] f = "image" -> LdImage(EmptyFields, Get(page.ld, "image"))
NxYield(f) == IF Truthy(page.nx) THEN Normalized(f, Get(page.nx, f)) ELSE None
OgYield(f) ==
  CASE f \in {"title", "description", "image"} -> Get(page.og, f)
    [] f = "location" ->
         LET parts == OgParts(page.og, <<"place", "street_address", "locality", "region",
                                         "country">>)
         IN IF parts # <<>> THEN Str(Join(parts)) ELSE None
    [] OTHER -> None
JsonWinner(f) == Or(Or(NetYield(f), LdYield(f)), NxYield(f))
MetaWinner(f) == Or(JsonWinner(f), OgYield(f))

\* w is the returned form of the value v a strategy yields for field f: a
\* date as yielded or normalized once more, any other field as the clean-up
\* leaves it
IsFinalOf(f, v, w) ==
  IF f \in {"start_date", "end_date"}
    THEN w \in {v, normalize_iso_no_tz(v)}
    ELSE w = CleanupCard([EmptyFields EXCEPT ![f] = v], url)[f]

C3_FetchPath ==
  LET escalate == \/ url.fragment # ""
                  \/ http.status \in {403, 429}
                  \/ looks_blocked(http.body)
  IN /\ pc = "f_on" => escalate
     /\ (pc = "soup" /\ source = "requests") => (~escalate /\ ~fstat.called)
     /\ pc = "soup" => source \in {"requests", "playwright"}
     /\ (pc = "soup" /\ source = "playwright") => (fstat.called /\ fstat.read)

C3_Witness ==
  /\ pc = "f_on"
  /\ url.fragment # ""
  /\ http.status = 200
  /\ ~looks_blocked(http.body)

\* C4: a network error of the HTTP GET does not leave parse_event as an
\* exception
C4_HttpFailureEscalates == ~(pc = "except" /\ exc = "RequestException")

\* C5: when the batch run ends with a session that was started, close() has
\* been called, and after a call of close() the browser and the driver are
\* terminated
C5_CloseTerminates ==
  pc = "exit" =>
    /\ sess.started => closeCalls >= 1
    /\ closeCalls >= 1 => (~sess.browser /\ ~sess.driver)

\* C6: at most one response listener is attached to the page, and none is
\* attached when a fetch starts
C6_OneListener ==
  /\ Cardinality(listeners) <= 1
  /\ pc = "f_on" => listeners = {}

\* the payload of the first adapter, in ADAPTERS order, that extracts a
\* non-blank title or description from response r
FirstHit(r) ==
  IF \E a \in 1..NumAdapters : r.out[a] = "hit"
    THEN Payload(HitFields(CHOOSE a \in 1..NumAdapters :
                             /\ r.out[a] = "hit"
                             /\ \A b \in 1..(a - 1) : r.out[b] # "hit"))
    ELSE NoPayload

\* C7: when a response reaches the listener, a captured payload stays as it
\* is, a response that is not JSON changes nothing, and otherwise the payload
\* becomes that of the first adapter in order that matches and extracts a
\* non-blank title or description
C7_FirstHitFixes ==
  [][(pc' = pc /\ fstat'.nresp = fstat.nresp + 1) =>
       /\ extracted.some => extracted' = extracted
       /\ ~IsJsonCt(lastResp'.ct) => extracted' = extracted
       /\ (~extracted.some /\ IsJsonCt(lastResp'.ct)) => extracted' = FirstHit(lastResp')]_vars

C7_Witness ==
  /\ fstat.nresp = 2
  /\ extracted = Payload(HitFields(1))
  /\ IsJsonCt(lastResp.ct)
  /\ lastResp.out[1] # "hit"
  /\ lastResp.out[NumAdapters] = "hit"

C9_BlockedSource ==
  pc = "ret" =>
    source = IF Truthy(card.title) /\ HasBlockedKeyword(card.title.v) THEN "blocked"
             ELSE IF fstat.called THEN "playwright"
             ELSE "requests"

C9_Witness ==
  /\ pc = "ret"
  /\ fstat.called
  /\ source = "blocked"
  /\ card.title = Str(TxJam)

\* C10: the image of the returned record is never a relative reference
C10_ImageAbsolute ==
  (pc = "ret" /\ Truthy(card.image)) => ~IsRelativeRef(card.image.v)

\* C11: once the document has been fetched, parse_event does not raise
C11_NeverRaises ==
  ~(pc = "except" /\ exc \in {"TypeError", "AttributeError", "ExtructError"})

\* C12: when none of network JSON, JSON-LD and embedded framework JSON yields
\* a title and the page has an og:title or twitter:title, the returned title
\* is that meta content, normalized
C12_OgTitleFirst ==
  (pc = "ret" /\ ~Truthy(JsonWinner("title")) /\ Truthy(OgYield("title")))
    => IsFinalOf("title", OgYield("title"), card.title)

\* a text that is entity-decoded, free of markup tags and whitespace-collapsed
IsCleanText(s) ==
  /\ s # <<>>
  /\ \A n \in 1..Len(s) :
       /\ EntityChar(s[n]) = s[n]
       /\ ~TagAt(s, n)
       /\ s[n] \in Whitespace => s[n] = " "
       /\ (s[n] = " " /\ n < Len(s)) => s[n + 1] # " "
  /\ s[1] # " "
  /\ s[Len(s)] # " "

\* C14: in the returned record, a title, description or location that is not
\* null is a str that is entity-decoded, free of markup tags and
\* whitespace-collapsed
C14_TextNormalized ==
  pc = "ret" =>
    \A f \in {"title", "description", "location"} :
      card[f] # None => (IsStr(card[f]) /\ IsCleanText(card[f].v))

\* C13: extract_event does not raise, whatever the parsed payload is
C13_ExtractNeverRaises == call.at # "raised"

\* C15: normalize_iso_no_tz is idempotent: a date that one extraction step
\* stored normalized is left as it is when the next step normalizes it again
C15_NormalizeIdempotent ==
  pc \in {"s_ld", "s_nx", "s_og"} =>
    \A f \in {"start_date", "end_date"} :
      normalize_iso_no_tz(normalize_iso_no_tz(card[f])) = normalize_iso_no_tz(card[f])
        /\ normalize_iso_no_tz(card[f]) = card[f]

\* C16: the payload that a fetch returns was captured from a response of its
\* own navigation, never from one of the document the page held before
C16_PayloadOfOwnNavigation ==
  (pc = "soup" /\ extracted.some) => ~fstat.stale

\* C17: the date and location fallbacks that run after extract_main_text give
\* the result they give on the document as it was parsed, so an element inside
\* a header, nav, footer or form is still found
C17_MainTextKeepsDocument ==
  [][ /\ (pc = "s_time" /\ pc' = "s_aria") => card' = ApplyTime(card, page.x.times, FALSE)
      /\ (pc = "s_aria" /\ pc' = "s_text") => card' = ApplyAria(card, page.x.arias, FALSE)
      /\ (pc = "s_locitem" /\ pc' = "s_loctest")
           => card' = ApplyLocElement(card, page.x.locitems, FALSE)
      /\ (pc = "s_loctest" /\ pc' = "s_locog")
           => card' = ApplyLocElement(card, page.x.loctest, FALSE) ]_vars

====
